---- MODULE Spec2Model ----
(***************************************************************************)
(* EDUHELPER (Advanced_Projects/EDUHELPER/main.py): a Streamlit page that  *)
(* extracts the text of uploaded PDFs, splits it into chunks, embeds the   *)
(* chunks into a FAISS index saved under "faiss_index", and answers        *)
(* questions from the chunks retrieved out of that index.                  *)
(*                                                                         *)
(* A text is a sequence of one-character strings.  The library calls the   *)
(* program makes (PdfReader, RecursiveCharacterTextSplitter, FAISS, the    *)
(* embedding and chat services) are modelled by what they do: the splitter *)
(* by its algorithm, the remote services by their possible outcomes.       *)
(***************************************************************************)
EXTENDS Integers, Sequences, FiniteSets, TLC

VARIABLES
    \* ---- the page: one run of main() per user interaction
    index,          \* the directory "faiss_index": [exists, texts]
    pc,             \* position of the current run of main()
    user_question,  \* value of the question box in this run
    pdf_docs,       \* value of the file uploader in this run
    pressed,        \* "Submit & Process" was clicked for this run
    docs,           \* result of the run's similarity_search
    shown,          \* what the run has displayed (st.write, st.success)
    error,          \* the exception that ended the run, or "none"
    runLog,         \* the calls the run has made, in order
    indexAtStart,   \* history: index when the run started
    lastBuilt,      \* history: chunks of the last successful process action
    earlier,        \* history: chunks some replaced index held
    \* ---- get_pdf_text applied to drawn uploads
    ex_docs, ex_text, ex_done,
    \* ---- the splitter applied to drawn texts and configurations
    sp_text, sp_size, sp_overlap, sp_chunks, sp_done,
    \* ---- an index built from drawn chunks and queried
    vs_chunks, vs_store, vs_result, vs_phase

pageVars == <<index, pc, user_question, pdf_docs, pressed, docs, shown, error,
              runLog, indexAtStart, lastBuilt, earlier>>
exVars == <<ex_docs, ex_text, ex_done>>
spVars == <<sp_text, sp_size, sp_overlap, sp_chunks, sp_done>>
vsVars == <<vs_chunks, vs_store, vs_result, vs_phase>>
vars == <<pageVars, exVars, spVars, vsVars>>

-----------------------------------------------------------------------------
(* Bounds of the model *)

MaxDocs == 2        \* uploaded documents per draw
MaxPages == 2       \* pages per drawn document
MaxTextLen == 5     \* length of a text drawn for the splitter
MaxChunkSize == 4   \* largest chunk_size drawn for the splitter
MaxStored == 5      \* chunks of a drawn index

-----------------------------------------------------------------------------
(* Texts *)

SP == " "
NL == "\n"
TAB == "\t"
Chars == {"a", "b", SP, NL, TAB}

Min(S) == CHOOSE m \in S : \A n \in S : m <= n
Max(S) == CHOOSE m \in S : \A n \in S : m >= n

\* All sequences over S of length at most n.
SeqsUpTo(S, n) == UNION {[1..k -> S] : k \in 0..n}

\* str.strip(): leading and trailing whitespace removed.  A tab is
\* whitespace and is none of the splitter's separators.
IsSpace(c) == c \in {SP, NL, TAB}
Strip(s) ==
    LET keep == {i \in 1..Len(s) : ~IsSpace(s[i])}
    IN  IF keep = {} THEN <<>> ELSE SubSeq(s, Min(keep), Max(keep))

-----------------------------------------------------------------------------
(* get_pdf_text: lines 19-34 *)

\* Mutant: a line break is put after every page.
RECURSIVE PagesLoop_sep(_, _)
PagesLoop_sep(text, pages) ==
    IF pages = <<>> THEN text
    ELSE PagesLoop_sep(text \o Head(pages) \o <<NL>>, Tail(pages))

\* for page in pdf_reader.pages: text += page.extract_text()
RECURSIVE PagesLoop(_, _)
PagesLoop(text, pages) ==
    IF pages = <<>> THEN text
    ELSE PagesLoop(text \o Head(pages), Tail(pages))

\* for pdf in pdf_docs: ...
RECURSIVE DocsLoop(_, _)
DocsLoop(text, pdfs) ==
    IF pdfs = <<>> THEN text
    ELSE DocsLoop(PagesLoop(text, Head(pdfs)), Tail(pdfs))

get_pdf_text(pdfs) == DocsLoop(<<>>, pdfs)

-----------------------------------------------------------------------------
(* get_text_chunks: lines 36-48.  RecursiveCharacterTextSplitter(chunk_size, *)
(* chunk_overlap).split_text(text), with the splitter's defaults:           *)
(* separators ["\n\n", "\n", " ", ""], keep_separator, strip_whitespace.    *)

chunk_size == 10000
chunk_overlap == 1000

separators == << <<NL, NL>>, <<NL>>, <<SP>>, <<>> >>

\* Start positions of the occurrences of sep (non-empty) in text.
Hits(sep, text) ==
    {i \in 1..(Len(text) - Len(sep) + 1) : SubSeq(text, i, i + Len(sep) - 1) = sep}

\* re.split(sep, text) without the captured separators: the pieces between
\* the leftmost non-overlapping matches.
RECURSIVE ReSplit(_, _)
ReSplit(text, sep) ==
    IF Hits(sep, text) = {} THEN <<text>>
    ELSE LET i == Min(Hits(sep, text))
         IN  <<SubSeq(text, 1, i - 1)>>
                 \o ReSplit(SubSeq(text, i + Len(sep), Len(text)), sep)

\* _split_text_with_regex with keep_separator: each separator stays at the
\* head of the piece that follows it; empty pieces are dropped.  With the
\* empty separator the text is split into its characters.
split_text_with_regex(text, separator) ==
    LET pieces == ReSplit(text, separator)
        splits == IF separator # <<>>
                  THEN <<pieces[1]>>
                           \o [j \in 1..(Len(pieces) - 1) |-> separator \o pieces[j + 1]]
                  ELSE [i \in 1..Len(text) |-> <<text[i]>>]
    IN  SelectSeq(splits, LAMBDA s : s # <<>>)

RECURSIVE JoinWith(_, _)
JoinWith(parts, separator) ==
    IF parts = <<>> THEN <<>>
    ELSE IF Len(parts) = 1 THEN Head(parts)
    ELSE Head(parts) \o separator \o JoinWith(Tail(parts), separator)

\* _join_docs: the joined text stripped; None (here <<>>) when it is empty.
join_docs(parts, separator) == Strip(JoinWith(parts, separator))

\* Mutant: the loop also drops the split that brings the kept text down to
\* exactly chunk_overlap characters.
RECURSIVE PopLoop_keepLess(_, _, _, _, _, _)
PopLoop_keepLess(current_doc, total, len, separator_len, size, overlap) ==
    IF \/ total >= overlap /\ total > 0
       \/ /\ total + len + (IF Len(current_doc) > 0 THEN separator_len ELSE 0) > size
          /\ total > 0
    THEN PopLoop_keepLess(Tail(current_doc),
                 total - (Len(Head(current_doc))
                            + (IF Len(current_doc) > 1 THEN separator_len ELSE 0)),
                 len, separator_len, size, overlap)
    ELSE [current_doc |-> current_doc, total |-> total]

\* The while loop of _merge_splits: drop splits from the front of
\* current_doc until at most chunk_overlap characters are kept and the next
\* split fits.
RECURSIVE PopLoop(_, _, _, _, _, _)
PopLoop(current_doc, total, len, separator_len, size, overlap) ==
    IF \/ total > overlap
       \/ /\ total + len + (IF Len(current_doc) > 0 THEN separator_len ELSE 0) > size
          /\ total > 0
    THEN PopLoop(Tail(current_doc),
                 total - (Len(Head(current_doc))
                            + (IF Len(current_doc) > 1 THEN separator_len ELSE 0)),
                 len, separator_len, size, overlap)
    ELSE [current_doc |-> current_doc, total |-> total]

\* The for loop of _merge_splits.
RECURSIVE MergeLoop(_, _, _, _, _, _, _)
MergeLoop(splits, separator, merged, current_doc, total, size, overlap) ==
    IF splits = <<>>
    THEN LET doc == join_docs(current_doc, separator)
         IN  IF doc # <<>> THEN Append(merged, doc) ELSE merged
    ELSE LET d == Head(splits)
             len == Len(d)
             separator_len == Len(separator)
             flush == /\ total + len
                            + (IF Len(current_doc) > 0 THEN separator_len ELSE 0) > size
                      /\ Len(current_doc) > 0
             doc == join_docs(current_doc, separator)
             merged1 == IF flush /\ doc # <<>> THEN Append(merged, doc) ELSE merged
             kept == IF flush
                     THEN PopLoop(current_doc, total, len, separator_len, size, overlap)
                     ELSE [current_doc |-> current_doc, total |-> total]
             current1 == Append(kept.current_doc, d)
             total1 == kept.total + len
                           + (IF Len(current1) > 1 THEN separator_len ELSE 0)
         IN  MergeLoop(Tail(splits), separator, merged1, current1, total1, size, overlap)

\* Mutant: chunk_overlap is ignored.
merge_splits_noOverlap(splits, separator, size, overlap) ==
    MergeLoop(splits, separator, <<>>, <<>>, 0, size, 0)

\* Mutant: what is left in current_doc after the loop is not emitted.
merge_splits_noFlush(splits, separator, size, overlap) ==
    LET merged == MergeLoop(splits, separator, <<>>, <<>>, 0, size, overlap)
    IN  IF merged = <<>> THEN merged ELSE SubSeq(merged, 1, Len(merged) - 1)

merge_splits(splits, separator, size, overlap) ==
    MergeLoop(splits, separator, <<>>, <<>>, 0, size, overlap)

\* RecursiveCharacterTextSplitter._split_text: split on the first separator
\* that occurs in the text, merge the pieces shorter than chunk_size, and
\* split every other piece again with the separators that remain.
RECURSIVE split_text_rec(_, _, _, _)
RECURSIVE SplitLoop(_, _, _, _, _, _)
SplitLoop(splits, good_splits, final_chunks, new_separators, size, overlap) ==
    IF splits = <<>>
    THEN IF good_splits # <<>>
         THEN final_chunks \o merge_splits(good_splits, <<>>, size, overlap)
         ELSE final_chunks
    ELSE LET s == Head(splits)
         IN  IF Len(s) < size
             THEN SplitLoop(Tail(splits), Append(good_splits, s), final_chunks,
                            new_separators, size, overlap)
             ELSE LET merged == IF good_splits # <<>>
                                THEN final_chunks
                                         \o merge_splits(good_splits, <<>>, size, overlap)
                                ELSE final_chunks
                      final1 == IF new_separators = <<>>
                                THEN Append(merged, s)
                                ELSE merged \o split_text_rec(s, new_separators,
                                                              size, overlap)
                  IN  SplitLoop(Tail(splits), <<>>, final1, new_separators,
                                size, overlap)

split_text_rec(text, seps, size, overlap) ==
    LET found == {i \in 1..Len(seps) : seps[i] = <<>> \/ Hits(seps[i], text) # {}}
        i == IF found = {} THEN Len(seps) ELSE Min(found)
        separator == seps[i]
        new_separators == IF found # {} /\ separator # <<>>
                          THEN SubSeq(seps, i + 1, Len(seps))
                          ELSE <<>>
    IN  SplitLoop(split_text_with_regex(text, separator), <<>>, <<>>,
                  new_separators, size, overlap)

split_text(text, size, overlap) == split_text_rec(text, separators, size, overlap)

get_text_chunks(text) == split_text(text, chunk_size, chunk_overlap)

-----------------------------------------------------------------------------
(* The persisted index and the remote services *)

\* The directory "faiss_index": absent, or the texts of the stored vectors
\* in insertion order.
NoIndex == [exists |-> FALSE, texts |-> <<>>]

\* An index left on disk by an earlier session of the program.
Legacy == [exists |-> TRUE, texts |-> << <<"z">> >>]

Range(f) == {f[i] : i \in DOMAIN f}

\* similarity_search(user_question) is called without k: the library default.
DefaultK == 4

\* The orders in which a store of n vectors can answer a k-nearest query:
\* min(k, n) distinct positions, most similar first.  Which positions
\* depends on the embeddings, which are opaque.
Rankings(n, k) ==
    LET r == IF n < k THEN n ELSE k
    IN  {f \in [1..r -> 1..n] : \A i, j \in 1..r : i # j => f[i] # f[j]}

similarity_search(texts, rank) == [i \in DOMAIN rank |-> texts[rank[i]]]

\* Mutant: a missing directory loads as an empty store.
load_local_empty(idx) == [error |-> "none", texts |-> idx.texts, disk |-> idx]

\* Mutant: loading removes the directory.
load_local_consumes(idx) ==
    IF idx.exists
    THEN [error |-> "none", texts |-> idx.texts, disk |-> NoIndex]
    ELSE [error |-> "MissingIndex", texts |-> <<>>, disk |-> idx]

\* FAISS.load_local: fails when nothing was saved; reads, never writes.
load_local(idx) ==
    IF idx.exists
    THEN [error |-> "none", texts |-> idx.texts, disk |-> idx]
    ELSE [error |-> "MissingIndex", texts |-> <<>>, disk |-> idx]

\* t without the repetitions of its elements, first occurrences kept.
Dedup(t) == SelectSeq([i \in DOMAIN t |->
                          IF \E j \in 1..(i - 1) : t[j] = t[i] THEN <<>> ELSE t[i]],
                      LAMBDA c : c # <<>>)

\* Mutant: the new chunks are added to the index already on disk.
get_vector_store_append(text_chunks, idx, svc) ==
    IF svc = "fail"
    THEN [error |-> "ServiceError", index |-> idx, calls |-> <<"embed_documents">>]
    ELSE IF text_chunks = <<>>
    THEN [error |-> "IndexError", index |-> idx, calls |-> <<"embed_documents">>]
    ELSE [error |-> "none",
          index |-> [exists |-> TRUE, texts |-> idx.texts \o text_chunks],
          calls |-> <<"embed_documents", "save_local">>]

\* Mutant: repeated chunk texts are stored once.
get_vector_store_dedup(text_chunks, idx, svc) ==
    IF svc = "fail"
    THEN [error |-> "ServiceError", index |-> idx, calls |-> <<"embed_documents">>]
    ELSE IF text_chunks = <<>>
    THEN [error |-> "IndexError", index |-> idx, calls |-> <<"embed_documents">>]
    ELSE [error |-> "none",
          index |-> [exists |-> TRUE, texts |-> Dedup(text_chunks)],
          calls |-> <<"embed_documents", "save_local">>]

\* Mutant: the directory is written before the chunks are embedded, so a
\* failed build leaves an index without vectors.
get_vector_store_saveFirst(text_chunks, idx, svc) ==
    IF svc = "fail"
    THEN [error |-> "ServiceError",
          index |-> [exists |-> TRUE, texts |-> <<>>],
          calls |-> <<"save_local", "embed_documents">>]
    ELSE IF text_chunks = <<>>
    THEN [error |-> "IndexError", index |-> idx, calls |-> <<"embed_documents">>]
    ELSE [error |-> "none",
          index |-> [exists |-> TRUE, texts |-> text_chunks],
          calls |-> <<"save_local", "embed_documents", "save_local">>]

\* get_vector_store: lines 50-62.  FAISS.from_texts embeds every chunk
\* (svc = "fail": the embedding service raises; no chunks: from_texts
\* raises on embeddings[0]); only then save_local overwrites the directory.
get_vector_store(text_chunks, idx, svc) ==
    IF svc = "fail"
    THEN [error |-> "ServiceError", index |-> idx, calls |-> <<"embed_documents">>]
    ELSE IF text_chunks = <<>>
    THEN [error |-> "IndexError", index |-> idx, calls |-> <<"embed_documents">>]
    ELSE [error |-> "none",
          index |-> [exists |-> TRUE, texts |-> text_chunks],
          calls |-> <<"embed_documents", "save_local">>]

\* user_input: lines 92-118.  svc is the outcome of the remote services:
\* "ok", "embed_fail" (embedding the question raises), "chain_fail" (the
\* chat model raises).
user_input(idx, svc, rank) ==
    LET new_db == load_local(idx)
        found == similarity_search(new_db.texts, rank)
    IN  IF new_db.error # "none"
        THEN [error |-> new_db.error, docs |-> <<>>, shown |-> <<>>,
              calls |-> <<"load_local">>, index |-> new_db.disk]
        ELSE IF svc = "embed_fail"
        THEN [error |-> "ServiceError", docs |-> <<>>, shown |-> <<>>,
              calls |-> <<"load_local", "similarity_search">>,
              index |-> new_db.disk]
        ELSE IF svc = "chain_fail"
        THEN [error |-> "ServiceError", docs |-> found, shown |-> <<>>,
              calls |-> <<"load_local", "similarity_search", "chain">>,
              index |-> new_db.disk]
        ELSE [error |-> "none", docs |-> found, shown |-> <<"answer">>,
              calls |-> <<"load_local", "similarity_search", "chain", "st.write">>,
              index |-> new_db.disk]

\* The body of the "Submit & Process" button: lines 138-143.
process(files, idx, svc) ==
    LET raw_text == get_pdf_text(files)
        text_chunks == get_text_chunks(raw_text)
        built == get_vector_store(text_chunks, idx, svc)
        ok == built.error = "none"
    IN  [error |-> built.error,
         index |-> built.index,
         chunks |-> text_chunks,
         shown |-> IF ok THEN <<"Done">> ELSE <<>>,
         calls |-> <<"get_pdf_text", "get_text_chunks">> \o built.calls
                       \o (IF ok THEN <<"st.success">> ELSE <<>>)]

-----------------------------------------------------------------------------
(* main: lines 120-154, one run per user interaction *)

DocA == << <<"a", "b">>, <<SP, "a">> >>
DocB == << <<"b">> >>
DocScan == << <<>> >>           \* an image-only page: no extractable text
Uploads == {<<>>, <<DocA>>, <<DocB>>, <<DocA, DocB>>, <<DocB, DocA>>, <<DocScan>>}
Questions == {"", "q"}

\* if user_question: user_input(user_question), then the sidebar.
FirstStep(q) == IF q # "" THEN "ask" ELSE "sidebar"

\* Mutant: the run goes on to the sidebar after a failed question.
AfterAsk_continue(err) == "sidebar"

\* An exception raised by user_input is not caught: the run ends there.
AfterAsk(err) == IF err = "none" THEN "sidebar" ELSE "idle"

Main_Start ==
    /\ pc = "idle"
    /\ \E q \in Questions, files \in Uploads, click \in BOOLEAN :
          /\ user_question' = q
          /\ pdf_docs' = files
          /\ pressed' = click
          /\ pc' = FirstStep(q)
    /\ docs' = <<>>
    /\ shown' = <<>>
    /\ error' = "none"
    /\ runLog' = <<>>
    /\ indexAtStart' = index
    /\ UNCHANGED <<index, lastBuilt, earlier>>
    /\ UNCHANGED <<exVars, spVars, vsVars>>

UserInput ==
    /\ pc = "ask"
    /\ \E svc \in {"ok", "embed_fail", "chain_fail"},
          rank \in Rankings(Len(index.texts), DefaultK) :
          LET r == user_input(index, svc, rank)
          IN  /\ index' = r.index
              /\ docs' = r.docs
              /\ shown' = shown \o r.shown
              /\ error' = r.error
              /\ runLog' = runLog \o r.calls
              /\ pc' = AfterAsk(r.error)
    /\ UNCHANGED <<user_question, pdf_docs, pressed, indexAtStart, lastBuilt, earlier>>
    /\ UNCHANGED <<exVars, spVars, vsVars>>

Sidebar_Process ==
    /\ pc = "sidebar"
    /\ pressed
    /\ \E svc \in {"ok", "fail"} :
          LET r == process(pdf_docs, index, svc)
          IN  /\ index' = r.index
              /\ shown' = shown \o r.shown
              /\ error' = r.error
              /\ runLog' = runLog \o r.calls
              /\ lastBuilt' = IF r.error = "none"
                              THEN [done |-> TRUE, texts |-> r.chunks]
                              ELSE lastBuilt
              /\ earlier' = earlier \cup Range(index.texts)
    /\ pc' = "idle"
    /\ UNCHANGED <<user_question, pdf_docs, pressed, docs, indexAtStart>>
    /\ UNCHANGED <<exVars, spVars, vsVars>>

Sidebar_Skip ==
    /\ pc = "sidebar"
    /\ ~pressed
    /\ pc' = "idle"
    /\ UNCHANGED <<index, user_question, pdf_docs, pressed, docs, shown, error,
                   runLog, indexAtStart, lastBuilt, earlier>>
    /\ UNCHANGED <<exVars, spVars, vsVars>>

ExIdle == ex_docs = <<>> /\ ex_text = <<>> /\ ex_done = FALSE
SpIdle == /\ sp_text = <<>> /\ sp_size = 1 /\ sp_overlap = 0
          /\ sp_chunks = <<>> /\ sp_done = FALSE
VsIdle == /\ vs_chunks = <<>> /\ vs_store = NoIndex
          /\ vs_result = <<>> /\ vs_phase = "new"
PageIdle ==
    /\ index = NoIndex
    /\ pc = "idle"
    /\ user_question = ""
    /\ pdf_docs = <<>>
    /\ pressed = FALSE
    /\ docs = <<>>
    /\ shown = <<>>
    /\ error = "none"
    /\ runLog = <<>>
    /\ indexAtStart = NoIndex
    /\ lastBuilt = [done |-> FALSE, texts |-> <<>>]
    /\ earlier = {}

\* The page is opened with no index on disk, or with the one an earlier
\* session left there.
Init ==
    /\ index \in {NoIndex, Legacy}
    /\ pc = "idle"
    /\ user_question = ""
    /\ pdf_docs = <<>>
    /\ pressed = FALSE
    /\ docs = <<>>
    /\ shown = <<>>
    /\ error = "none"
    /\ runLog = <<>>
    /\ indexAtStart = index
    /\ lastBuilt = [done |-> FALSE, texts |-> <<>>]
    /\ earlier = {}
    /\ ExIdle /\ SpIdle /\ VsIdle

Next == Main_Start \/ UserInput \/ Sidebar_Process \/ Sidebar_Skip

Spec == Init /\ [][Next]_vars

-----------------------------------------------------------------------------
(* get_pdf_text applied to every upload within the bounds *)

PageTexts == {<<>>, <<"a">>, <<"b", SP>>}
DocSet == SeqsUpTo(PageTexts, MaxPages)

ExtractInit ==
    /\ ex_docs \in SeqsUpTo(DocSet, MaxDocs)
    /\ ex_text = <<>>
    /\ ex_done = FALSE
    /\ PageIdle /\ SpIdle /\ VsIdle

Extract ==
    /\ ~ex_done
    /\ ex_text' = get_pdf_text(ex_docs)
    /\ ex_done' = TRUE
    /\ UNCHANGED <<ex_docs, pageVars, spVars, vsVars>>

ExtractSpec == ExtractInit /\ [][Extract]_vars

-----------------------------------------------------------------------------
(* The splitter applied to every text and configuration within the bounds *)

SplitInit ==
    /\ sp_text \in SeqsUpTo(Chars, MaxTextLen)
    /\ sp_size \in 1..MaxChunkSize
    /\ sp_overlap \in 0..(sp_size - 1)
    /\ sp_chunks = <<>>
    /\ sp_done = FALSE
    /\ PageIdle /\ ExIdle /\ VsIdle

Split ==
    /\ ~sp_done
    /\ sp_chunks' = split_text(sp_text, sp_size, sp_overlap)
    /\ sp_done' = TRUE
    /\ UNCHANGED <<sp_text, sp_size, sp_overlap, pageVars, exVars, vsVars>>

SplitSpec == SplitInit /\ [][Split]_vars

-----------------------------------------------------------------------------
(* An index built from drawn chunks, then queried as user_input does *)

ChunkTexts == {<<"a">>, <<"b">>}

StoreInit ==
    /\ vs_chunks \in SeqsUpTo(ChunkTexts, MaxStored)
    /\ vs_store = NoIndex
    /\ vs_result = <<>>
    /\ vs_phase = "new"
    /\ PageIdle /\ ExIdle /\ SpIdle

Build ==
    /\ vs_phase = "new"
    /\ \E svc \in {"ok", "fail"} :
          LET r == get_vector_store(vs_chunks, vs_store, svc)
          IN  /\ vs_store' = r.index
              /\ vs_phase' = IF r.error = "none" THEN "built" ELSE "failed"
    /\ UNCHANGED <<vs_chunks, vs_result, pageVars, exVars, spVars>>

Query ==
    /\ vs_phase = "built"
    /\ \E rank \in Rankings(Len(vs_store.texts), DefaultK) :
          LET r == user_input(vs_store, "ok", rank)
          IN  /\ vs_result' = r.docs
              /\ vs_store' = r.index
    /\ vs_phase' = "queried"
    /\ UNCHANGED <<vs_chunks, pageVars, exVars, spVars>>

StoreNext == Build \/ Query

StoreSpec == StoreInit /\ [][StoreNext]_vars

-----------------------------------------------------------------------------
(* Properties of the page (Spec) *)

ProcessRan == "get_pdf_text" \in Range(runLog)
AskCalls == <<"load_local", "similarity_search", "chain", "st.write">>

\* C1: once a process action has succeeded, every chunk a later question
\* retrieves is a chunk of the most recent successful process action, and
\* none is a chunk that only a replaced index held.  (docs is the retrieval
\* of the current run, which precedes the run's own process step.)
C1_RebuildReplacesIndex ==
    (lastBuilt.done /\ ~ProcessRan) =>
        /\ Range(docs) \subseteq Range(lastBuilt.texts)
        /\ Range(docs) \cap (earlier \ Range(lastBuilt.texts)) = {}

\* A question was answered from a rebuilt index that replaced other chunks.
C1_Witness ==
    /\ lastBuilt.done /\ ~ProcessRan
    /\ docs # <<>>
    /\ shown = <<"answer">>
    /\ earlier \ Range(lastBuilt.texts) # {}

\* C2: a question asked while no index is on disk fails with MissingIndex
\* at the load: nothing is retrieved, the chat model is not called, nothing
\* is displayed, and the run ends there.
C2_MissingIndexFails ==
    (user_question # "" /\ ~indexAtStart.exists /\ pc # "ask") =>
        /\ error = "MissingIndex"
        /\ runLog = <<"load_local">>
        /\ docs = <<>>
        /\ shown = <<>>
        /\ pc = "idle"

\* A question failed on the missing index in a run whose button was pressed.
C2_Witness ==
    /\ error = "MissingIndex"
    /\ ~index.exists
    /\ pressed
    /\ pdf_docs # <<>>

\* C3: the ask step never changes the index on disk, whatever its outcome;
\* only the process step of a run whose button was pressed does.
C3_AskLeavesIndex ==
    [][/\ pc = "ask" => index' = index
       /\ index' # index => (pc = "sidebar" /\ pressed)]_vars

\* A question was answered and the index is still the one on disk before.
C3_Witness ==
    /\ pc = "sidebar"
    /\ runLog = AskCalls
    /\ index.exists
    /\ index = indexAtStart

\* C9: a process step that fails leaves the index as it was and reports no
\* "Done"; the embedding is requested once; "Done" is reported only with
\* the index of this build on disk, saved before the report.
C9_FailedBuildKeepsIndex ==
    [][(pc = "sidebar" /\ pressed) =>
          LET new == SubSeq(runLog', Len(runLog) + 1, Len(runLog'))
              at(call) == {i \in DOMAIN new : new[i] = call}
          IN  /\ error' # "none" =>
                    /\ index' = index
                    /\ "Done" \notin Range(shown')
                    /\ at("save_local") = {}
              /\ Cardinality(at("embed_documents")) = 1
              /\ "Done" \in Range(shown') =>
                    /\ error' = "none"
                    /\ index' = [exists |-> TRUE,
                                 texts |-> get_text_chunks(get_pdf_text(pdf_docs))]
                    /\ at("save_local") # {}
                    /\ \A i \in at("save_local"), j \in at("embed_documents") : j < i
                    /\ \A i \in at("save_local"), j \in at("st.success") : i < j]_vars

\* The embedding service failed during a rebuild over an existing index.
C9_Witness ==
    /\ pc = "idle"
    /\ error = "ServiceError"
    /\ ProcessRan
    /\ index.exists
    /\ lastBuilt.done

\* C10: in a run with a question, the ask step comes first and the process
\* step runs only after it succeeded: the answer is retrieved from the
\* index as it was when the run started, and a failed ask ends the run with
\* the index untouched.
C10_AskBeforeProcess ==
    user_question # "" =>
        /\ ProcessRan => SubSeq(runLog, 1, Len(AskCalls)) = AskCalls
        /\ Range(docs) \subseteq Range(indexAtStart.texts)
        /\ (pc # "ask" /\ "st.write" \notin Range(runLog)) =>
              /\ pc = "idle"
              /\ error # "none"
              /\ ~ProcessRan
              /\ index = indexAtStart

\* One run answered a question and then rebuilt the index.
C10_Witness ==
    /\ user_question # ""
    /\ shown = <<"answer", "Done">>
    /\ docs # <<>>
    /\ index # indexAtStart

-----------------------------------------------------------------------------
(* Properties of get_pdf_text (ExtractSpec) *)

RECURSIVE SumLen(_)
SumLen(texts) == IF texts = <<>> THEN 0 ELSE Len(Head(texts)) + SumLen(Tail(texts))

RECURSIVE DocsLen(_)
DocsLen(pdfs) == IF pdfs = <<>> THEN 0 ELSE SumLen(Head(pdfs)) + DocsLen(Tail(pdfs))

\* Where the text of page p of document d starts in the extracted text.
Offset(pdfs, d, p) == DocsLen(SubSeq(pdfs, 1, d - 1)) + SumLen(SubSeq(pdfs[d], 1, p - 1))

\* C4: the extracted text is the page texts one after the other, pages in
\* page order within a document and documents in upload order, with
\* nothing between them; it is empty for no documents and when no page
\* has text.
C4_ExtractConcatenatesInOrder ==
    ex_done =>
        /\ Len(ex_text) = DocsLen(ex_docs)
        /\ \A d \in DOMAIN ex_docs : \A p \in DOMAIN ex_docs[d] :
              \A i \in DOMAIN ex_docs[d][p] :
                 ex_text[Offset(ex_docs, d, p) + i] = ex_docs[d][p][i]
        /\ ex_docs = <<>> => ex_text = <<>>
        /\ (\A d \in DOMAIN ex_docs : \A p \in DOMAIN ex_docs[d] : ex_docs[d][p] = <<>>)
              => ex_text = <<>>

\* Two documents of two pages each, all with text, were extracted.
C4_Witness ==
    /\ ex_done
    /\ Len(ex_docs) = 2
    /\ \A d \in DOMAIN ex_docs :
          Len(ex_docs[d]) = 2 /\ \A p \in DOMAIN ex_docs[d] : ex_docs[d][p] # <<>>
    /\ ex_docs[1] # ex_docs[2]

-----------------------------------------------------------------------------
(* Properties of the splitter (SplitSpec) *)

NoSpace(text) == \A i \in DOMAIN text : ~IsSpace(text[i])
LastN(c, n) == SubSeq(c, Len(c) - n + 1, Len(c))
FirstN(c, n) == SubSeq(c, 1, n)
Least(a, b) == IF a < b THEN a ELSE b
CeilDiv(a, b) == (a + b - 1) \div b

AllWithinSize == \A i \in DOMAIN sp_chunks : Len(sp_chunks[i]) <= sp_size

\* Chunk i and chunk i+1 overlap by exactly sp_overlap characters; a final
\* chunk shorter than the overlap is held to its own length.
OverlapsNext(i) ==
    LET n == IF i + 1 = Len(sp_chunks)
             THEN Least(sp_overlap, Len(sp_chunks[i + 1]))
             ELSE sp_overlap
    IN  /\ Len(sp_chunks[i]) >= n
        /\ Len(sp_chunks[i + 1]) >= n
        /\ LastN(sp_chunks[i], n) = FirstN(sp_chunks[i + 1], n)

\* C5 as stated: every chunk is within the size and every two consecutive
\* chunks overlap by exactly the configured overlap, for every text.
C5_ExactOverlap_AsStated ==
    sp_done =>
        /\ AllWithinSize
        /\ \A i \in 1..(Len(sp_chunks) - 1) : OverlapsNext(i)

\* C5 amended: every chunk is within the size for every text; the overlap
\* between consecutive chunks is exactly the configured one when the text
\* holds no whitespace (none of the splitter's separators).
C5_ExactOverlap_NoSpace ==
    sp_done =>
        /\ AllWithinSize
        /\ NoSpace(sp_text) =>
              \A i \in 1..(Len(sp_chunks) - 1) :
                 /\ Len(sp_chunks[i]) = sp_size
                 /\ Len(sp_chunks[i + 1]) > sp_overlap
                 /\ LastN(sp_chunks[i], sp_overlap) = FirstN(sp_chunks[i + 1], sp_overlap)

\* A text without whitespace was cut into overlapping chunks, the last one
\* shorter than the size.
C5_Witness ==
    /\ sp_done
    /\ NoSpace(sp_text)
    /\ sp_overlap >= 1
    /\ Len(sp_chunks) >= 2
    /\ Len(sp_chunks[Len(sp_chunks)]) < sp_size
    /\ \E i, j \in DOMAIN sp_text : sp_text[i] # sp_text[j]

ExpectedCount(L, m, o) == IF L <= m THEN 1 ELSE CeilDiv(L - o, m - o)

\* C6 as stated: a text of length L gives ceil((L - o) / (m - o)) chunks,
\* one chunk when L <= m.
C6_ChunkCount_AsStated ==
    sp_done => Len(sp_chunks) = ExpectedCount(Len(sp_text), sp_size, sp_overlap)

\* C6 amended: the count holds for a non-empty text without whitespace.
C6_ChunkCount_NoSpace ==
    (sp_done /\ sp_text # <<>> /\ NoSpace(sp_text)) =>
        Len(sp_chunks) = ExpectedCount(Len(sp_text), sp_size, sp_overlap)

\* A text without whitespace, longer than the size and not a whole number
\* of steps, was cut with a positive overlap.
C6_Witness ==
    /\ sp_done
    /\ NoSpace(sp_text)
    /\ Len(sp_text) > sp_size
    /\ sp_overlap >= 1
    /\ (Len(sp_text) - sp_overlap) % (sp_size - sp_overlap) # 0
    /\ Len(sp_chunks) >= 2

\* The length of the longest head of chunk c, of at most sp_overlap
\* characters, that is also the tail of its predecessor.
SharedLen(prev, c) ==
    Max({n \in 0..Least(sp_overlap, Least(Len(prev), Len(c))) :
            LastN(prev, n) = FirstN(c, n)})

\* The chunks one after the other, each but the first without the head it
\* shares with its predecessor.
RECURSIVE Reassemble(_, _)
Reassemble(chunks, i) ==
    IF i > Len(chunks) THEN <<>>
    ELSE (IF i = 1 THEN chunks[1]
          ELSE SubSeq(chunks[i], SharedLen(chunks[i - 1], chunks[i]) + 1,
                      Len(chunks[i])))
             \o Reassemble(chunks, i + 1)

\* C7 as stated: the chunks without their shared heads give back the text,
\* for every text.
C7_RoundTrip_AsStated == sp_done => Reassemble(sp_chunks, 1) = sp_text

\* C7 amended: they give back the text when it holds no whitespace.
C7_RoundTrip_NoSpace ==
    (sp_done /\ NoSpace(sp_text)) => Reassemble(sp_chunks, 1) = sp_text

\* A text without whitespace was cut into chunks sharing two or more
\* characters and reassembled.
C7_Witness ==
    /\ sp_done
    /\ NoSpace(sp_text)
    /\ sp_overlap >= 2
    /\ Len(sp_chunks) >= 2
    /\ Reassemble(sp_chunks, 1) = sp_text
    /\ sp_text[1] # sp_text[Len(sp_text)]

-----------------------------------------------------------------------------
(* Properties of the index (StoreSpec) *)

\* C8: an index built from N chunks answers a query for k <= N results
\* (k is the library default, the only k the program asks for) with exactly
\* k results, each one of the N chunks.
C8_RetrievalReturnsKIndexed ==
    (vs_phase = "queried" /\ DefaultK <= Len(vs_chunks)) =>
        /\ Len(vs_result) = DefaultK
        /\ Range(vs_result) \subseteq Range(vs_chunks)

\* An index of more chunks than k, some of them repeated, was queried.
C8_Witness ==
    /\ vs_phase = "queried"
    /\ Len(vs_chunks) > DefaultK
    /\ Cardinality(Range(vs_chunks)) = 2
    /\ Len(vs_result) = DefaultK

====
